---- MODULE Spec2Model ----
(***************************************************************************)
(* A model of variational_autoencoder/VAE.py: the convolutional VAE, its  *)
(* loss, the data preparation, the training loop of __main__ and the      *)
(* assembly of the animation (draw_gif).                                   *)
(*                                                                         *)
(* The script's parts do not share state except through the model         *)
(* parameters and the working directory, so each part has its own         *)
(* specification over its own group of variables; the variables of the    *)
(* other parts stay at their idle values:                                  *)
(*   SpecGif    draw_gif, one loop iteration per step                      *)
(*   SpecTrain  the epoch loop of __main__  (FairSpecTrain: with progress) *)
(*   SpecData   prepare_data's normalisation and binarisation              *)
(*   SpecShape  tensor shapes through encode, reparameterize, decode       *)
(*   SpecLoss   compute_loss over a term algebra of real expressions       *)
(***************************************************************************)
EXTENDS Integers, Sequences, FiniteSets, TLC

VARIABLES
    \* draw_gif
    gpc,        \* position in draw_gif: "loop", "append", "done", "error"
    nfiles,     \* len(filenames); the sorted files are indexed 0..nfiles-1
    gi,         \* the index enumerate() yields next
    last,       \* the local `last`
    filename,   \* the loop variable `filename` (an index), or Unbound
    frames,     \* the images handed to writer.append_data, in order
    gerr,       \* the exception that left draw_gif, or "none"
    \* __main__
    pc,         \* position in __main__
    epoch,      \* the loop variable `epoch`
    tbatch,     \* mini-batches of train_dataset consumed in this pass
    ebatch,     \* mini-batches of test_dataset consumed in this evaluation
    params,     \* number of optimizer updates applied to the parameters
    lossval,    \* the value the last compute_loss returned
    metric,     \* the tf.keras.metrics.Mean: [count, nan]
    elbo,       \* the local `elbo`
    writes,     \* names handed to plt.savefig, in order
    passes,     \* history: epochs whose pass over train_dataset completed
    evals,      \* history: epochs whose held-out evaluation completed
    \* prepare_data
    dpc,        \* position in prepare_data
    raw_train,  \* a pixel of the loaded training images, 0..255
    raw_test,   \* a pixel of the loaded test images, 0..255
    train_px,   \* that pixel of train_images, in units of 1/255
    test_px,    \* that pixel of test_images, in units of 1/255
    \* shapes
    spc,        \* position in the forward pass
    batch,      \* B, the batch size
    latent_dim, \* CVAE.latent_dim
    x_shape, mean_shape, logvar_shape, z_shape, logits_shape,
    \* compute_loss
    lpc,        \* position in compute_loss
    lx,         \* the batch x: example -> pixel -> 0 or 1
    ldim,       \* model.latent_dim
    lmean, llogvar, lz, x_logit,   \* the locals mean, logvar, z, x_logit
    draws,      \* number of tf.random.normal tensors drawn so far
    loss        \* the value compute_loss returns

gifVars   == <<gpc, nfiles, gi, last, filename, frames, gerr>>
trainVars == <<pc, epoch, tbatch, ebatch, params, lossval, metric, elbo,
               writes, passes, evals>>
dataVars  == <<dpc, raw_train, raw_test, train_px, test_px>>
shapeVars == <<spc, batch, latent_dim, x_shape, mean_shape, logvar_shape,
               z_shape, logits_shape>>
lossVars  == <<lpc, lx, ldim, lmean, llogvar, lz, x_logit, draws, loss>>
vars == <<gifVars, trainVars, dataVars, shapeVars, lossVars>>

-----------------------------------------------------------------------------
(* Bounds *)

MaxFiles == 16          \* draw_gif: at most this many image*.png files
NumTrainBatches == 3    \* mini-batches in train_dataset (469 in the script)
NumTestBatches == 2     \* mini-batches in test_dataset (79 in the script)
MaxBatch == 6           \* shapes: batch sizes 1..MaxBatch
MaxLatent == 6          \* shapes: latent_dim 1..MaxLatent
MaxLossBatch == 2       \* compute_loss: batch sizes 1..MaxLossBatch
MaxLossLatent == 2      \* compute_loss: latent_dim 1..MaxLossLatent
NumPix == 2             \* compute_loss: pixels per example (784 in the script)

-----------------------------------------------------------------------------
(* Idle values of each part's variables *)

Unbound == -1

IdleGif ==
    /\ gpc = "idle" /\ nfiles = 0 /\ gi = 0 /\ last = -1
    /\ filename = Unbound /\ frames = <<>> /\ gerr = "none"

IdleTrain ==
    /\ pc = "idle" /\ epoch = 0 /\ tbatch = 0 /\ ebatch = 0 /\ params = 0
    /\ lossval = "none" /\ metric = [count |-> 0, nan |-> FALSE]
    /\ elbo = "none" /\ writes = <<>> /\ passes = <<>> /\ evals = <<>>

IdleData ==
    /\ dpc = "idle" /\ raw_train = 0 /\ raw_test = 0
    /\ train_px = 0 /\ test_px = 0

IdleShape ==
    /\ spc = "idle" /\ batch = 1 /\ latent_dim = 1
    /\ x_shape = <<>> /\ mean_shape = <<>> /\ logvar_shape = <<>>
    /\ z_shape = <<>> /\ logits_shape = <<>>

IdleLoss ==
    /\ lpc = "idle" /\ lx = <<>> /\ ldim = 1 /\ lmean = <<>>
    /\ llogvar = <<>> /\ lz = <<>> /\ x_logit = <<>> /\ draws = 0
    /\ loss = <<>>

-----------------------------------------------------------------------------
(* draw_gif (VAE.py 102-116)                                               *)
(*                                                                         *)
(* The floats of the loop are 2 * i**0.5 for an index i, and the initial  *)
(* -1.  A float 2*sqrt(i) is represented by its square 4*i, and -1 by -1. *)
(* 4*i is an integer, so 2*sqrt(i) is never halfway between two integers  *)
(* (that needs 4*i = k*k + k + 1/4): round() has no tie to break, and the *)
(* distance to the nearest half-integer is far above a double's rounding  *)
(* error for any number of files a directory holds.                        *)

\* frame = 2 * (i**0.5), as its square
Frame(i) == 4 * i

\* round(v) for v = sqrt(s): the k >= 0 with k - 1/2 < sqrt(s) < k + 1/2
RoundSqrt(s) ==
    CHOOSE k \in 0..(s + 1) :
        /\ s <= k * k + k
        /\ (k = 0 \/ s > k * k - k)

\* round(v) for a float of the loop
Round(v) == IF v < 0 THEN v ELSE RoundSqrt(v)

\* mutant: the comparison as >=
SelectsOrEqual(frame, lst) == Round(frame) >= Round(lst)

\* the test `round(frame) > round(last)`
Selects(frame, lst) == Round(frame) > Round(lst)

\* mutant: the final frame only when the loop did not write it
AppendIfNew(fr, name) ==
    IF fr # <<>> /\ fr[Len(fr)] = name THEN fr ELSE Append(fr, name)

\* the two lines after the loop: imread(filename), writer.append_data
AppendFinal(fr, name) == Append(fr, name)

\* mutant: an unbound name reads as no error
ReadNameLenient(name) == "none"

\* reading the local `filename` at line 115: unbound when the loop body
\* never ran
ReadName(name) == IF name = Unbound THEN "UnboundLocalError" ELSE "none"

InitGif ==
    /\ gpc = "loop"
    /\ nfiles \in 0..MaxFiles
    /\ gi = 0
    /\ last = -1
    /\ filename = Unbound
    /\ frames = <<>>
    /\ gerr = "none"
    /\ IdleTrain /\ IdleData /\ IdleShape /\ IdleLoss

\* one iteration of `for i, filename in enumerate(filenames)`
GifLoopStep ==
    /\ gpc = "loop"
    /\ gi < nfiles
    /\ filename' = gi
    /\ IF Selects(Frame(gi), last)
       THEN /\ last' = Frame(gi)
            /\ frames' = Append(frames, gi)
       ELSE UNCHANGED <<last, frames>>
    /\ gi' = gi + 1
    /\ UNCHANGED <<gpc, nfiles, gerr>>
    /\ UNCHANGED <<trainVars, dataVars, shapeVars, lossVars>>

\* the loop is exhausted
GifLoopExit ==
    /\ gpc = "loop"
    /\ gi = nfiles
    /\ gpc' = "append"
    /\ UNCHANGED <<nfiles, gi, last, filename, frames, gerr>>
    /\ UNCHANGED <<trainVars, dataVars, shapeVars, lossVars>>

\* lines 115-116, then the with block closes the writer
GifAppendLast ==
    /\ gpc = "append"
    /\ IF ReadName(filename) # "none"
       THEN /\ gerr' = ReadName(filename)
            /\ gpc' = "error"
            /\ UNCHANGED frames
       ELSE /\ frames' = AppendFinal(frames, filename)
            /\ gpc' = "done"
            /\ UNCHANGED gerr
    /\ UNCHANGED <<nfiles, gi, last, filename>>
    /\ UNCHANGED <<trainVars, dataVars, shapeVars, lossVars>>

NextGif == GifLoopStep \/ GifLoopExit \/ GifAppendLast

SpecGif == InitGif /\ [][NextGif]_vars

-----------------------------------------------------------------------------
(* Properties of draw_gif *)

\* the frames the loop itself has written: all but the one appended after it
LoopFrames ==
    IF gpc = "done" THEN SubSeq(frames, 1, Len(frames) - 1) ELSE frames

LoopSelected(i) == \E j \in 1..Len(LoopFrames) : LoopFrames[j] = i

\* the greatest loop-selected index below i (i > 0, and index 0 is selected)
SelectedBefore(i) ==
    CHOOSE s \in 0..(i - 1) :
        /\ LoopSelected(s)
        /\ \A t \in (s + 1)..(i - 1) : ~LoopSelected(t)

\* C7: the indices the loop selects are strictly increasing, and so are their
\* values of round(2*sqrt(i)); an index the loop has passed is selected
\* exactly when it is index 0 or its rounded value exceeds that of the last
\* index selected before it; and once draw_gif is done the frames written
\* include the last file, index nfiles-1.
C7_FrameSelection ==
    /\ \A j \in 1..(Len(LoopFrames) - 1) :
          /\ LoopFrames[j] < LoopFrames[j + 1]
          /\ Round(Frame(LoopFrames[j])) < Round(Frame(LoopFrames[j + 1]))
    /\ \A i \in 0..(gi - 1) :
          LoopSelected(i) <=>
              (i = 0 \/ Round(Frame(i)) > Round(Frame(SelectedBefore(i))))
    /\ (gpc = "done") =>
          /\ nfiles >= 1
          /\ \E j \in 1..Len(frames) : frames[j] = nfiles - 1

\* a finished call in which the loop skipped files, the last one among them
C7_Witness ==
    /\ gpc = "done"
    /\ nfiles >= 4
    /\ ~LoopSelected(nfiles - 1)
    /\ Len(frames) < nfiles

\* C9: with no matching file the loop body never runs, the read of the final
\* frame raises, the error leaves draw_gif and no frame has been written.
C9_NoFilesFails ==
    (nfiles = 0 /\ gpc \in {"loop", "append", "done", "error"}) =>
        /\ gi = 0
        /\ filename = Unbound
        /\ frames = <<>>
        /\ gpc # "done"
        /\ (gpc = "error" => gerr = "UnboundLocalError")

\* draw_gif has failed on an empty directory
C9_Witness == nfiles = 0 /\ gpc = "error" /\ gerr # "none"

\* C10: a finished draw_gif over nfiles >= 1 files has written one frame per
\* distinct value of round(2*sqrt(i)), i in 0..nfiles-1, plus one; the indices
\* written never decrease; and the last two frames are the same file exactly
\* when the loop had selected index nfiles-1.
C10_FrameCount ==
    (gpc = "done") =>
        /\ Len(frames) =
              Cardinality({Round(Frame(i)) : i \in 0..(nfiles - 1)}) + 1
        /\ \A j \in 1..(Len(frames) - 1) : frames[j] <= frames[j + 1]
        /\ (/\ Len(frames) >= 2
            /\ frames[Len(frames) - 1] = nfiles - 1
            /\ frames[Len(frames)] = nfiles - 1)
           <=> LoopSelected(nfiles - 1)

\* a finished call whose last file was written twice, after other frames
C10_Witness ==
    /\ gpc = "done"
    /\ nfiles >= 5
    /\ frames[Len(frames) - 1] = frames[Len(frames)]

-----------------------------------------------------------------------------
(* __main__ (VAE.py 153-179), train_step (81-86),                          *)
(* generate_and_save_images (89-99)                                        *)
(*                                                                         *)
(* The parameters are abstracted to the number of optimizer updates       *)
(* applied to them, and a loss to whether it is finite: the control flow  *)
(* reads neither.                                                          *)

epochs == 100           \* line 154
EvalEvery == 10         \* line 170

LossValues == {"finite", "nan"}

Digit(d) == <<"0", "1", "2", "3", "4", "5", "6", "7", "8", "9">>[d + 1]

RECURSIVE Dec(_)
\* the decimal digits of n >= 0
Dec(n) == IF n < 10 THEN Digit(n) ELSE Dec(n \div 10) \o Digit(n % 10)

RECURSIVE ZeroPad(_, _)
\* s padded on the left with zeros to a width of at least w
ZeroPad(s, w) == IF Len(s) >= w THEN s ELSE ZeroPad("0" \o s, w)

\* 'image_at_epoch_{:04d}.png'.format(epoch)
FileName(e) == "image_at_epoch_" \o ZeroPad(Dec(e), 4) \o ".png"

\* mutant: every tenth epoch counted from 1
EvalDueFromOne(e) == (e + 1) % EvalEvery = 0

\* the test `epoch % 10 == 0`
EvalDue(e) == e % EvalEvery = 0

\* optimizer.apply_gradients: one update of the parameters
ApplyGradients(p) == p + 1

\* metric(value) of a tf.keras.metrics.Mean
MeanUpdate(m, v) == [count |-> m.count + 1, nan |-> m.nan \/ v = "nan"]

\* -metric.result()
NegResult(m) == IF m.nan \/ m.count = 0 THEN "nan" ELSE "finite"

InitTrain ==
    /\ pc = "for_epoch"
    /\ epoch = 0
    /\ tbatch = 0
    /\ ebatch = 0
    /\ params = 0
    /\ lossval = "none"
    /\ metric = [count |-> 0, nan |-> FALSE]
    /\ elbo = "none"
    /\ writes = <<>>
    /\ passes = <<>>
    /\ evals = <<>>
    /\ IdleGif /\ IdleData /\ IdleShape /\ IdleLoss

\* `for epoch in range(epochs)`: at the loop head `epoch` holds the value
\* range() yields next
ForEpoch ==
    /\ pc = "for_epoch"
    /\ IF epoch < epochs
       THEN /\ pc' = "train"
            /\ tbatch' = 0
       ELSE /\ pc' = "done"
            /\ UNCHANGED tbatch
    /\ UNCHANGED <<epoch, ebatch, params, lossval, metric, elbo, writes,
                   passes, evals>>
    /\ UNCHANGED <<gifVars, dataVars, shapeVars, lossVars>>

\* train_step(model, train_x) on the next mini-batch
TrainStep ==
    /\ pc = "train"
    /\ tbatch < NumTrainBatches
    /\ \E v \in LossValues : lossval' = v
    /\ params' = ApplyGradients(params)
    /\ tbatch' = tbatch + 1
    /\ UNCHANGED <<pc, epoch, ebatch, metric, elbo, writes, passes, evals>>
    /\ UNCHANGED <<gifVars, dataVars, shapeVars, lossVars>>

\* train_dataset is exhausted; `if epoch % 10 == 0:`
TrainPassEnd ==
    /\ pc = "train"
    /\ tbatch = NumTrainBatches
    /\ passes' = Append(passes, epoch)
    /\ IF EvalDue(epoch)
       THEN /\ pc' = "eval"
            /\ metric' = [count |-> 0, nan |-> FALSE]
            /\ ebatch' = 0
            /\ UNCHANGED epoch
       ELSE /\ pc' = "for_epoch"
            /\ epoch' = epoch + 1
            /\ UNCHANGED <<metric, ebatch>>
    /\ UNCHANGED <<tbatch, params, lossval, elbo, writes, evals>>
    /\ UNCHANGED <<gifVars, dataVars, shapeVars, lossVars>>

\* mutant: the evaluation pass trains on the held-out batches
EvalStepTrains ==
    /\ pc = "eval"
    /\ ebatch < NumTestBatches
    /\ \E v \in LossValues :
          /\ lossval' = v
          /\ metric' = MeanUpdate(metric, v)
    /\ params' = ApplyGradients(params)
    /\ ebatch' = ebatch + 1
    /\ UNCHANGED <<pc, epoch, tbatch, elbo, writes, passes, evals>>
    /\ UNCHANGED <<gifVars, dataVars, shapeVars, lossVars>>

\* loss(compute_loss(model, test_x)) on the next held-out mini-batch
EvalStep ==
    /\ pc = "eval"
    /\ ebatch < NumTestBatches
    /\ \E v \in LossValues :
          /\ lossval' = v
          /\ metric' = MeanUpdate(metric, v)
    /\ ebatch' = ebatch + 1
    /\ UNCHANGED <<pc, epoch, tbatch, params, elbo, writes, passes, evals>>
    /\ UNCHANGED <<gifVars, dataVars, shapeVars, lossVars>>

\* mutant: a NaN ELBO stops the training
EvalEndStopsOnNan ==
    /\ pc = "eval"
    /\ ebatch = NumTestBatches
    /\ elbo' = NegResult(metric)
    /\ evals' = Append(evals, epoch)
    /\ pc' = IF NegResult(metric) = "nan" THEN "done" ELSE "render"
    /\ UNCHANGED <<epoch, tbatch, ebatch, params, lossval, metric, writes,
                   passes>>
    /\ UNCHANGED <<gifVars, dataVars, shapeVars, lossVars>>

\* test_dataset is exhausted: elbo = -loss.result(), clear_output, print
EvalEnd ==
    /\ pc = "eval"
    /\ ebatch = NumTestBatches
    /\ elbo' = NegResult(metric)
    /\ evals' = Append(evals, epoch)
    /\ pc' = "render"
    /\ UNCHANGED <<epoch, tbatch, ebatch, params, lossval, metric, writes,
                   passes>>
    /\ UNCHANGED <<gifVars, dataVars, shapeVars, lossVars>>

\* generate_and_save_images(model, epoch, random_vector_for_generation);
\* the body of the epoch loop ends
Render ==
    /\ pc = "render"
    /\ writes' = Append(writes, FileName(epoch))
    /\ pc' = "for_epoch"
    /\ epoch' = epoch + 1
    /\ UNCHANGED <<tbatch, ebatch, params, lossval, metric, elbo, passes,
                   evals>>
    /\ UNCHANGED <<gifVars, dataVars, shapeVars, lossVars>>

NextTrain ==
    ForEpoch \/ TrainStep \/ TrainPassEnd \/ EvalStep \/ EvalEnd \/ Render

SpecTrain == InitTrain /\ [][NextTrain]_vars

\* the interpreter runs the script's next statement
FairSpecTrain == SpecTrain /\ WF_vars(NextTrain)

-----------------------------------------------------------------------------
(* Properties of the training loop *)

Range(seq) == {seq[k] : k \in 1..Len(seq)}

Count(seq, v) == Cardinality({k \in 1..Len(seq) : seq[k] = v})

\* epochs whose loop body has run to its end
Completed == 0..(epoch - 1)

\* C3: the evaluation and the rendering of an epoch run only after that
\* epoch's pass over all training mini-batches and only when epoch mod 10 = 0;
\* a completed epoch e was evaluated exactly when e mod 10 = 0 and then wrote
\* exactly one file, named by e alone; a full run has written exactly the 10
\* distinct files of epochs 0, 10, ..., 90.
C3_EvalEveryTenth ==
    /\ (pc \in {"eval", "render"}) =>
          /\ epoch % 10 = 0
          /\ tbatch = NumTrainBatches
          /\ passes # <<>> /\ passes[Len(passes)] = epoch
    /\ \A e \in Completed :
          /\ (e \in Range(evals)) <=> (e % 10 = 0)
          /\ Count(evals, e) = IF e % 10 = 0 THEN 1 ELSE 0
          /\ Count(writes, FileName(e)) = IF e % 10 = 0 THEN 1 ELSE 0
    /\ \A k \in 1..Len(writes) : writes[k] = FileName(evals[k])
    /\ \A e \in Range(evals) :
          /\ Len(FileName(e)) = 23
          /\ \A f \in Range(evals) : FileName(e) = FileName(f) => e = f
    /\ (pc = "done") =>
          /\ Len(writes) = 10
          /\ Range(writes) = {FileName(10 * k) : k \in 0..9}
          /\ Cardinality(Range(writes)) = 10
          /\ writes[1] = "image_at_epoch_0000.png"
          /\ writes[10] = "image_at_epoch_0090.png"

\* the whole run is over and its last evaluation epoch has been rendered
C3_Witness ==
    /\ pc = "done"
    /\ Len(writes) = 10
    /\ 90 \in Range(evals)

\* C4: a step changes the parameters exactly when it is a train_step on one
\* mini-batch, and then by exactly one optimizer update; the number of updates
\* is at every moment the number of training mini-batches consumed so far.
C4_OneUpdatePerBatch ==
    /\ [](params = Len(passes) * NumTrainBatches
                   + (IF pc = "train" THEN tbatch ELSE 0))
    /\ [][IF pc = "train" /\ tbatch' = tbatch + 1
          THEN params' = params + 1
          ELSE params' = params]_vars

\* an evaluation and a rendering are over and training has gone on after them
C4_Witness ==
    /\ Len(writes) >= 1
    /\ Len(evals) >= 1
    /\ pc = "train"
    /\ tbatch = 2
    /\ params = Len(passes) * NumTrainBatches + 2

\* C5: the run reaches its end, and at the end the passes over the training
\* mini-batches that were completed are those of epochs 0..99, once each, in
\* increasing order; whatever the losses were.
C5_HundredEpochs ==
    /\ <>(pc = "done")
    /\ [](\A k \in 1..Len(passes) : passes[k] = k - 1)
    /\ [](pc = "done" =>
            /\ Len(passes) = 100
            /\ epoch = 100
            /\ params = 100 * NumTrainBatches)

\* the run has ended although an evaluation produced a NaN ELBO
C5_Witness == pc = "done" /\ elbo = "nan" /\ Len(passes) = 100

\* C8: a complete run has written the per-evaluation-epoch image files and
\* the animation file.
C8_AnimationWritten ==
    (pc = "done") =>
        /\ \A k \in 0..9 : FileName(10 * k) \in Range(writes)
        /\ "cvae.gif" \in Range(writes)

-----------------------------------------------------------------------------
(* prepare_data (VAE.py 123-138)                                           *)
(*                                                                         *)
(* The operations are elementwise, so one pixel of each array is followed. *)
(* A pixel value is held in units of 1/255: the loaded value raw is       *)
(* 255*raw units, 1.0 is 255 units, and .5 is 127.5 units, so `v >= .5`   *)
(* is 2*v >= 255.  float32 rounds raw/255, but 0/255 and 255/255 are      *)
(* exact and no quotient is within rounding distance of .5, so every      *)
(* comparison and every equality with 0. or 1. comes out as on the exact  *)
(* quotient.                                                               *)

Scale == 255            \* line 131
MaxRaw == 255           \* the greatest value of a uint8 pixel

\* mutant: the division is left out
NormalizeSkipped(v) == v

\* images /= 255.
Normalize(v) == v \div Scale

\* images[images >= .5] = 1.
SetOnes(v) == IF 2 * v >= Scale THEN Scale ELSE v

\* images[images < .5] = 0.
SetZeros(v) == IF 2 * v < Scale THEN 0 ELSE v

InitData ==
    /\ dpc = "normalize_train"
    /\ raw_train \in 0..MaxRaw
    /\ raw_test \in 0..MaxRaw
    /\ train_px = Scale * raw_train
    /\ test_px = Scale * raw_test
    /\ IdleGif /\ IdleTrain /\ IdleShape /\ IdleLoss

\* line 131
NormalizeTrain ==
    /\ dpc = "normalize_train"
    /\ train_px' = Normalize(train_px)
    /\ dpc' = "normalize_test"
    /\ UNCHANGED <<raw_train, raw_test, test_px>>
    /\ UNCHANGED <<gifVars, trainVars, shapeVars, lossVars>>

\* line 132
NormalizeTest ==
    /\ dpc = "normalize_test"
    /\ test_px' = Normalize(test_px)
    /\ dpc' = "train_ones"
    /\ UNCHANGED <<raw_train, raw_test, train_px>>
    /\ UNCHANGED <<gifVars, trainVars, shapeVars, lossVars>>

\* line 135
TrainOnes ==
    /\ dpc = "train_ones"
    /\ train_px' = SetOnes(train_px)
    /\ dpc' = "train_zeros"
    /\ UNCHANGED <<raw_train, raw_test, test_px>>
    /\ UNCHANGED <<gifVars, trainVars, shapeVars, lossVars>>

\* line 136
TrainZeros ==
    /\ dpc = "train_zeros"
    /\ train_px' = SetZeros(train_px)
    /\ dpc' = "test_ones"
    /\ UNCHANGED <<raw_train, raw_test, test_px>>
    /\ UNCHANGED <<gifVars, trainVars, shapeVars, lossVars>>

\* line 137
TestOnes ==
    /\ dpc = "test_ones"
    /\ test_px' = SetOnes(test_px)
    /\ dpc' = "test_zeros"
    /\ UNCHANGED <<raw_train, raw_test, train_px>>
    /\ UNCHANGED <<gifVars, trainVars, shapeVars, lossVars>>

\* line 138; the pixels are as the datasets will hold them
TestZeros ==
    /\ dpc = "test_zeros"
    /\ test_px' = SetZeros(test_px)
    /\ dpc' = "prepared"
    /\ UNCHANGED <<raw_train, raw_test, train_px>>
    /\ UNCHANGED <<gifVars, trainVars, shapeVars, lossVars>>

NextData ==
    \/ NormalizeTrain \/ NormalizeTest
    \/ TrainOnes \/ TrainZeros \/ TestOnes \/ TestZeros

SpecData == InitData /\ [][NextData]_vars

-----------------------------------------------------------------------------
(* Properties of prepare_data *)

\* C6: a prepared pixel is exactly 0 or exactly 1 (255 units), and it is 1
\* exactly when raw/255 >= 0.5; the `< .5 -> 0` assignment leaves a pixel
\* alone that the `>= .5 -> 1` assignment has set to 1.
C6_Binarized ==
    /\ [](dpc = "prepared" =>
            /\ train_px \in {0, 255}
            /\ test_px \in {0, 255}
            /\ (train_px = 255) <=> (2 * raw_train >= 255)
            /\ (test_px = 255) <=> (2 * raw_test >= 255))
    /\ [][/\ (dpc = "train_zeros" /\ 2 * raw_train >= 255) =>
                (train_px = 255 /\ train_px' = 255)
          /\ (dpc = "test_zeros" /\ 2 * raw_test >= 255) =>
                (test_px = 255 /\ test_px' = 255)]_vars

\* prepared pixels on both sides of the threshold: raw 128 became 1 and raw
\* 127 became 0
C6_Witness ==
    /\ dpc = "prepared"
    /\ raw_train = 128 /\ train_px = 255
    /\ raw_test = 127 /\ test_px = 0

-----------------------------------------------------------------------------
(* Tensor shapes through CVAE (VAE.py 12-57)                               *)
(*                                                                         *)
(* A shape is the tuple of its dimensions, batch first; <<>> stands for   *)
(* the error a layer raises on a shape it cannot take.                     *)

ShapeError == <<>>

\* layers.Conv2D(filters, kernel_size, strides), padding 'valid'
Conv2D(sh, filters, kernel, stride) ==
    IF Len(sh) # 4 \/ sh[2] < kernel \/ sh[3] < kernel THEN ShapeError
    ELSE <<sh[1], (sh[2] - kernel) \div stride + 1,
                  (sh[3] - kernel) \div stride + 1, filters>>

\* layers.Flatten()
Flatten(sh) ==
    IF Len(sh) # 4 THEN ShapeError ELSE <<sh[1], sh[2] * sh[3] * sh[4]>>

\* layers.Dense(units)
Dense(sh, units) == IF Len(sh) # 2 THEN ShapeError ELSE <<sh[1], units>>

\* layers.Reshape(target_shape=(h, w, c))
Reshape(sh, h, w, c) ==
    IF Len(sh) # 2 \/ sh[2] # h * w * c THEN ShapeError
    ELSE <<sh[1], h, w, c>>

\* layers.Conv2DTranspose(filters, kernel_size, strides, padding='SAME')
Conv2DTranspose(sh, filters, stride) ==
    IF Len(sh) # 4 THEN ShapeError
    ELSE <<sh[1], sh[2] * stride, sh[3] * stride, filters>>

\* one half of tf.split(t, num_or_size_splits=2, axis=1)
SplitHalf(sh) ==
    IF Len(sh) # 2 \/ sh[2] % 2 # 0 THEN ShapeError
    ELSE <<sh[1], sh[2] \div 2>>

\* the shape of an elementwise product or sum of tensors of one shape
Elementwise(a, b) == IF a = b THEN a ELSE ShapeError

\* mutant: the last layer as Dense(latent_dim)
InferenceNetNarrow(sh, ld) ==
    IF sh = ShapeError \/ Len(sh) # 4 \/ <<sh[2], sh[3], sh[4]>> # <<28, 28, 1>>
    THEN ShapeError
    ELSE Dense(Flatten(Conv2D(Conv2D(sh, 32, 3, 2), 64, 3, 2)), ld)

\* self.inference_net, lines 16-25
InferenceNet(sh, ld) ==
    IF sh = ShapeError \/ Len(sh) # 4 \/ <<sh[2], sh[3], sh[4]>> # <<28, 28, 1>>
    THEN ShapeError
    ELSE Dense(Flatten(Conv2D(Conv2D(sh, 32, 3, 2), 64, 3, 2)), ld + ld)

\* self.generative_net, lines 26-36
GenerativeNet(sh, ld) ==
    IF sh = ShapeError \/ Len(sh) # 2 \/ sh[2] # ld THEN ShapeError
    ELSE Conv2DTranspose(
             Conv2DTranspose(
                 Conv2DTranspose(
                     Reshape(Dense(sh, 7 * 7 * 32), 7, 7, 32), 64, 2),
                 32, 2),
             1, 1)

InitShape ==
    /\ spc = "encode"
    /\ batch \in 1..MaxBatch
    /\ latent_dim \in 1..MaxLatent
    /\ x_shape = <<batch, 28, 28, 1>>
    /\ mean_shape = <<>> /\ logvar_shape = <<>>
    /\ z_shape = <<>> /\ logits_shape = <<>>
    /\ IdleGif /\ IdleTrain /\ IdleData /\ IdleLoss

\* CVAE.encode, lines 43-46
Encode ==
    /\ spc = "encode"
    /\ mean_shape' = SplitHalf(InferenceNet(x_shape, latent_dim))
    /\ logvar_shape' = SplitHalf(InferenceNet(x_shape, latent_dim))
    /\ spc' = "reparameterize"
    /\ UNCHANGED <<batch, latent_dim, x_shape, z_shape, logits_shape>>
    /\ UNCHANGED <<gifVars, trainVars, dataVars, lossVars>>

\* CVAE.reparameterize, lines 48-50: eps has mean's shape
Reparameterize ==
    /\ spc = "reparameterize"
    /\ LET eps_shape == mean_shape
       IN z_shape' = Elementwise(Elementwise(eps_shape, logvar_shape),
                                 mean_shape)
    /\ spc' = "decode"
    /\ UNCHANGED <<batch, latent_dim, x_shape, mean_shape, logvar_shape,
                   logits_shape>>
    /\ UNCHANGED <<gifVars, trainVars, dataVars, lossVars>>

\* CVAE.decode, lines 52-57
Decode ==
    /\ spc = "decode"
    /\ logits_shape' = GenerativeNet(z_shape, latent_dim)
    /\ spc' = "done"
    /\ UNCHANGED <<batch, latent_dim, x_shape, mean_shape, logvar_shape,
                   z_shape>>
    /\ UNCHANGED <<gifVars, trainVars, dataVars, lossVars>>

NextShape == Encode \/ Reparameterize \/ Decode

SpecShape == InitShape /\ [][NextShape]_vars

-----------------------------------------------------------------------------
(* Properties of the shapes *)

\* C2: for a batch of B images of 28x28x1 and any latent_dim >= 1, the
\* encoder's last layer has 2*latent_dim outputs, mean and logvar are each
\* B x latent_dim, the sample is B x latent_dim and the logits are
\* B x 28 x 28 x 1.
C2_Shapes ==
    /\ (spc \in {"encode", "reparameterize", "decode", "done"}) =>
          InferenceNet(x_shape, latent_dim) = <<batch, 2 * latent_dim>>
    /\ (spc \in {"reparameterize", "decode", "done"}) =>
          /\ mean_shape = <<batch, latent_dim>>
          /\ logvar_shape = <<batch, latent_dim>>
    /\ (spc \in {"decode", "done"}) => z_shape = <<batch, latent_dim>>
    /\ (spc = "done") => logits_shape = <<batch, 28, 28, 1>>

\* a forward pass is over for a batch of several images and an odd latent_dim
C2_Witness ==
    /\ spc = "done"
    /\ batch >= 2
    /\ latent_dim = 3
    /\ logits_shape # ShapeError

-----------------------------------------------------------------------------
(* compute_loss (VAE.py 68-78), log_normal_pdf (63-65)                     *)
(*                                                                         *)
(* A real value is a term: a record naming the operation that produced it *)
(* and its operands.  Two values are equal when they were computed the    *)
(* same way from the same inputs; nothing is assumed about exp, log, the  *)
(* networks or the cross-entropy beyond their being functions.  A rank-2  *)
(* tensor is a function example -> component -> term; the 28x28x1 pixels  *)
(* of an example are numbered 1..NumPix.                                   *)

Const(c)  == [op |-> "const", c |-> c]
Add(a, b) == [op |-> "add", l |-> a, r |-> b]
Sub(a, b) == [op |-> "sub", l |-> a, r |-> b]
Mul(a, b) == [op |-> "mul", l |-> a, r |-> b]
Neg(a)    == [op |-> "neg", a |-> a]
Sq(a)     == [op |-> "square", a |-> a]
Exp(a)    == [op |-> "exp", a |-> a]
Log(a)    == [op |-> "log", a |-> a]

\* tf.reduce_sum and tf.reduce_mean over the listed components
ReduceSum(xs)  == [op |-> "reduce_sum", xs |-> xs]
ReduceMean(xs) == [op |-> "reduce_mean", xs |-> xs]

\* a scalar broadcast to the shape of tensor t
Broadcast(c, t) == [b \in DOMAIN t |-> [d \in DOMAIN t[b] |-> c]]

\* output k of self.inference_net for one example
EncoderOut(xb, k) == [op |-> "inference_net", x |-> xb, k |-> k]

\* output p of self.generative_net for one latent vector
DecoderOut(zb, p) == [op |-> "generative_net", z |-> zb, p |-> p]

\* component (b, d) of the n-th tensor tf.random.normal returned
Normal(n, b, d) == [op |-> "normal", draw |-> n, b |-> b, d |-> d]

\* tf.nn.sigmoid_cross_entropy_with_logits on one pixel
SigmoidCE(logit, label) ==
    [op |-> "sigmoid_cross_entropy", logits |-> logit, labels |-> label]

\* log_normal_pdf(sample, mean, logvar, raxis=1)
log_normal_pdf(sample, mean, logvar) ==
    LET log2pi == Log(Mul(Const("2"), Const("pi")))
    IN [b \in DOMAIN sample |->
          ReduceSum([d \in DOMAIN sample[b] |->
              Mul(Const("-0.5"),
                  Add(Add(Mul(Sq(Sub(sample[b][d], mean[b][d])),
                              Exp(Neg(logvar[b][d]))),
                          logvar[b][d]),
                      log2pi))])]

\* eps * tf.exp(logvar * 0.5) + mean, for the n-th normal tensor as eps
Sample(n, mean, logvar) ==
    [b \in DOMAIN mean |-> [d \in DOMAIN mean[b] |->
        Add(Mul(Normal(n, b, d), Exp(Mul(logvar[b][d], Const("0.5")))),
            mean[b][d])]]

\* mutant: logqz_x is taken at a second sample of the posterior
LossOfResampled(x, mean, logvar, z, logit) ==
    LET cross_entropy ==
            [b \in DOMAIN x |-> [p \in DOMAIN x[b] |->
                SigmoidCE(logit[b][p], x[b][p])]]
        logpx_z == [b \in DOMAIN x |-> Neg(ReduceSum(cross_entropy[b]))]
        logpz   == log_normal_pdf(z, Broadcast(Const("0."), z),
                                  Broadcast(Const("0."), z))
        logqz_x == log_normal_pdf(Sample(2, mean, logvar), mean, logvar)
    IN Neg(ReduceMean([b \in DOMAIN x |->
               Sub(Add(logpx_z[b], logpz[b]), logqz_x[b])]))

\* lines 73-78, from the locals
LossOf(x, mean, logvar, z, logit) ==
    LET cross_entropy ==
            [b \in DOMAIN x |-> [p \in DOMAIN x[b] |->
                SigmoidCE(logit[b][p], x[b][p])]]
        logpx_z == [b \in DOMAIN x |-> Neg(ReduceSum(cross_entropy[b]))]
        logpz   == log_normal_pdf(z, Broadcast(Const("0."), z),
                                  Broadcast(Const("0."), z))
        logqz_x == log_normal_pdf(z, mean, logvar)
    IN Neg(ReduceMean([b \in DOMAIN x |->
               Sub(Add(logpx_z[b], logpz[b]), logqz_x[b])]))

InitLoss ==
    /\ lpc = "encode"
    /\ ldim \in 1..MaxLossLatent
    /\ \E B \in 1..MaxLossBatch : lx \in [1..B -> [1..NumPix -> {0, 1}]]
    /\ lmean = <<>> /\ llogvar = <<>> /\ lz = <<>> /\ x_logit = <<>>
    /\ draws = 0
    /\ loss = <<>>
    /\ IdleGif /\ IdleTrain /\ IdleData /\ IdleShape

\* line 69: mean, logvar = model.encode(x)
LossEncode ==
    /\ lpc = "encode"
    /\ lmean' = [b \in DOMAIN lx |-> [d \in 1..ldim |->
                    EncoderOut(lx[b], d)]]
    /\ llogvar' = [b \in DOMAIN lx |-> [d \in 1..ldim |->
                    EncoderOut(lx[b], ldim + d)]]
    /\ lpc' = "reparameterize"
    /\ UNCHANGED <<lx, ldim, lz, x_logit, draws, loss>>
    /\ UNCHANGED <<gifVars, trainVars, dataVars, shapeVars>>

\* line 70: z = model.reparameterize(mean, logvar)
LossReparameterize ==
    /\ lpc = "reparameterize"
    /\ draws' = draws + 1
    /\ lz' = Sample(draws + 1, lmean, llogvar)
    /\ lpc' = "decode"
    /\ UNCHANGED <<lx, ldim, lmean, llogvar, x_logit, loss>>
    /\ UNCHANGED <<gifVars, trainVars, dataVars, shapeVars>>

\* line 71: x_logit = model.decode(z)
LossDecode ==
    /\ lpc = "decode"
    /\ x_logit' = [b \in DOMAIN lx |-> [p \in DOMAIN lx[b] |->
                      DecoderOut(lz[b], p)]]
    /\ lpc' = "densities"
    /\ UNCHANGED <<lx, ldim, lmean, llogvar, lz, draws, loss>>
    /\ UNCHANGED <<gifVars, trainVars, dataVars, shapeVars>>

\* lines 73-78
LossReturn ==
    /\ lpc = "densities"
    /\ loss' = LossOf(lx, lmean, llogvar, lz, x_logit)
    /\ lpc' = "returned"
    /\ UNCHANGED <<lx, ldim, lmean, llogvar, lz, x_logit, draws>>
    /\ UNCHANGED <<gifVars, trainVars, dataVars, shapeVars>>

NextLoss == LossEncode \/ LossReparameterize \/ LossDecode \/ LossReturn

SpecLoss == InitLoss /\ [][NextLoss]_vars

-----------------------------------------------------------------------------
(* Properties of compute_loss *)

\* the terms of the objective for example b, as the claim words them
C1_logpx_z(b) ==
    Neg(ReduceSum([p \in 1..NumPix |->
            SigmoidCE(DecoderOut(lz[b], p), lx[b][p])]))

C1_logpz(b) ==
    log_normal_pdf(lz, Broadcast(Const("0."), lz),
                   Broadcast(Const("0."), lz))[b]

C1_logqz_x(b) ==
    log_normal_pdf(lz,
                   [e \in DOMAIN lx |-> [d \in 1..ldim |->
                       EncoderOut(lx[e], d)]],
                   [e \in DOMAIN lx |-> [d \in 1..ldim |->
                       EncoderOut(lx[e], ldim + d)]])[b]

\* C1: the value returned is the negated batch mean of
\* logpx_z + logpz - logqz_x, the three taken at the one latent sample z the
\* call drew: logpx_z the negated sum over the pixels of the cross-entropy of
\* decode(z) against x, logpz = log_normal_pdf(z, 0, 0) and
\* logqz_x = log_normal_pdf(z, mean, logvar) for encode(x)'s mean and logvar.
C1_LossIsNegativeElbo ==
    (lpc = "returned") =>
        /\ draws = 1
        /\ \A b \in DOMAIN lx : \A d \in 1..ldim :
              lz[b][d] = Add(Mul(Normal(1, b, d),
                                 Exp(Mul(EncoderOut(lx[b], ldim + d),
                                         Const("0.5")))),
                             EncoderOut(lx[b], d))
        /\ loss = Neg(ReduceMean([b \in DOMAIN lx |->
                      Sub(Add(C1_logpx_z(b), C1_logpz(b)), C1_logqz_x(b))]))

\* a loss has been returned for a batch of two different images
C1_Witness ==
    /\ lpc = "returned"
    /\ draws = 1
    /\ Len(lx) = 2
    /\ lx[1] # lx[2]
    /\ ldim = 2

====
